---- MODULE Spec2Model ----
(***************************************************************************)
(* Model of package ssh, connection.go: the connection metadata accessors  *)
(* (sshConn), the two Close methods, DiscardRequests, OpenChannelError,    *)
(* and the Conn operations that connection inherits from the embedded mux. *)
(***************************************************************************)
EXTENDS Integers, Sequences, FiniteSets, TLC

VARIABLES
    conn,      \* the sshConn value: stream pointer, user, the three buffers (heap addresses)
    heap,      \* byte arrays by address; a []byte is the address of its backing array
    held,      \* addresses of the buffers handed to callers, oldest first
    stream,    \* the network.Stream behind conn.stream
    ret,       \* what the last call returned
    last,      \* name of the last operation or environment step
    orig,      \* the values fixed when the session was established (history)
    in,        \* the Go channel handed to DiscardRequests: capacity, buffer, closed flag
    dr,        \* the DiscardRequests call: where it is and the request it holds
    replies,   \* the Reply calls made so far, in order
    consumed,  \* the requests DiscardRequests has received, in order (history)
    delivered, \* the requests the producer has sent on the channel, in order (history)
    hist,      \* whether Close was called, what first ended the stream, calls begun (history)
    mux,       \* the mux: shut down or not, its terminal error, holder of the global-request lock
    calls,     \* per caller: the Conn call it is in and what that call returned
    toPeer,    \* messages written to the stream, not yet handled by the peer
    fromPeer   \* packets from the peer, not yet read by the mux loop

metaVars == <<conn, heap, held, stream, ret, last, orig, hist>>

muxVars == <<mux, calls, toPeer, fromPeer>>

discardVars == <<in, dr, replies, consumed, delivered>>

vars == <<conn, heap, held, stream, ret, last, orig, in, dr, replies, consumed, delivered,
          hist, mux, calls, toPeer, fromPeer>>

----------------------------------------------------------------------------
(* Bounds *)

MaxLen == 1
MaxAllocs == 2
MaxCloses == 2
MaxReqs == 3
MaxCap == 2
MaxCalls == 3

----------------------------------------------------------------------------
(* Value sets *)

ByteVals == {0, 255}
Users == {"alice", "bob"}
Maddrs == {"/ip4/10.0.0.1/tcp/22", "/ip4/10.0.0.2/tcp/22"}
Nil == 0
StreamPtr == 1
ErrNil == "nil"
ErrStreamClosed == "stream closed"
ErrIO == "i/o error"
ErrEOF == "EOF"
Procs == {"a", "b"}
None == "none"

ByteSeqs == UNION {[1..n -> ByteVals] : n \in 0..MaxLen}

\* version strings: one of each length
VersionSeqs == {[i \in 1..n |-> 255] : n \in 0..MaxLen}

NoRet == [op |-> "none", buf |-> Nil, str |-> "", ma |-> "", err |-> ErrNil, panic |-> FALSE]

----------------------------------------------------------------------------
(* Byte slices *)

\* make([]byte, n): a new zeroed array at the next free address
make(h, n) == [heap |-> Append(h, [i \in 1..n |-> 0]), addr |-> Len(h) + 1]

\* copy(dst, src): the first min(len(dst), len(src)) bytes of src over dst
copy(h, dst, src) ==
    LET n == IF Len(h[dst]) < Len(h[src]) THEN Len(h[dst]) ELSE Len(h[src])
    IN  [h EXCEPT ![dst] = [i \in 1..Len(h[dst]) |-> IF i <= n THEN h[src][i] ELSE h[dst][i]]]

\* a dup that hands back its argument
dup_alias(h, src) == [heap |-> h, addr |-> src]

dup(h, src) ==
    LET m == make(h, Len(h[src]))
    IN  [heap |-> copy(m.heap, m.addr, src), addr |-> m.addr]

----------------------------------------------------------------------------
(* The stream (network.Stream) *)

stream_Close(s) ==
    [stream |-> [s EXCEPT !.closed = TRUE, !.closeCalls = @ + 1],
     err    |-> IF s.closed THEN s.reclose
                ELSE IF s.broken THEN ErrIO ELSE ErrNil]

stream_Conn(s) == [remote |-> s.remote, local |-> s.local]

----------------------------------------------------------------------------
(* sshConn and connection methods: each yields the call's outcome *)

Outcome(cn, h, s, r) == [conn |-> cn, heap |-> h, stream |-> s, ret |-> r]

Panic(cn, h, s, name) == Outcome(cn, h, s, [NoRet EXCEPT !.op = name, !.panic = TRUE])

User(cn, h, s) == Outcome(cn, h, s, [NoRet EXCEPT !.op = "User", !.str = cn.user])

SessionID(cn, h, s) ==
    LET d == dup(h, cn.sessionID)
    IN  Outcome(cn, d.heap, s, [NoRet EXCEPT !.op = "SessionID", !.buf = d.addr])

ClientVersion(cn, h, s) ==
    LET d == dup(h, cn.clientVersion)
    IN  Outcome(cn, d.heap, s, [NoRet EXCEPT !.op = "ClientVersion", !.buf = d.addr])

ServerVersion(cn, h, s) ==
    LET d == dup(h, cn.serverVersion)
    IN  Outcome(cn, d.heap, s, [NoRet EXCEPT !.op = "ServerVersion", !.buf = d.addr])

\* an accessor that answers with the address recorded at establishment
RemoteMultiaddr_cached(cn, h, s) ==
    Outcome(cn, h, s, [NoRet EXCEPT !.op = "RemoteMultiaddr", !.ma = orig.remote])

RemoteMultiaddr(cn, h, s) ==
    IF cn.stream = Nil THEN Panic(cn, h, s, "RemoteMultiaddr")
    ELSE Outcome(cn, h, s, [NoRet EXCEPT !.op = "RemoteMultiaddr", !.ma = stream_Conn(s).remote])

LocalMultiaddr(cn, h, s) ==
    IF cn.stream = Nil THEN Panic(cn, h, s, "LocalMultiaddr")
    ELSE Outcome(cn, h, s, [NoRet EXCEPT !.op = "LocalMultiaddr", !.ma = stream_Conn(s).local])

sshConn_Close(cn, h, s) ==
    IF cn.stream = Nil THEN Panic(cn, h, s, "sshConn.Close")
    ELSE LET r == stream_Close(s)
         IN  Outcome(cn, h, r.stream, [NoRet EXCEPT !.op = "sshConn.Close", !.err = r.err])

\* a Close that returns without closing the stream
connection_Close_noop(cn, h, s) ==
    Outcome(cn, h, s, [NoRet EXCEPT !.op = "connection.Close"])

\* a Close that drops the stream's error
connection_Close_swallow(cn, h, s) ==
    IF cn.stream = Nil THEN Panic(cn, h, s, "connection.Close")
    ELSE LET r == stream_Close(s)
         IN  Outcome(cn, h, r.stream, [NoRet EXCEPT !.op = "connection.Close"])

\* a Close that forgets the stream once it has closed it
connection_Close_forget(cn, h, s) ==
    IF cn.stream = Nil THEN Panic(cn, h, s, "connection.Close")
    ELSE LET r == stream_Close(s)
         IN  Outcome([cn EXCEPT !.stream = Nil], h, r.stream,
                     [NoRet EXCEPT !.op = "connection.Close", !.err = r.err])

connection_Close(cn, h, s) ==
    IF cn.stream = Nil THEN Panic(cn, h, s, "connection.Close")
    ELSE LET r == stream_Close(s)
         IN  Outcome(cn, h, r.stream, [NoRet EXCEPT !.op = "connection.Close", !.err = r.err])

----------------------------------------------------------------------------
(* Parts of the state a specification does not exercise stay as they start *)

NoReq == [id |-> 0, WantReply |-> FALSE]

DiscardIdle ==
    /\ in = [cap |-> 0, buf |-> <<>>, closed |-> FALSE]
    /\ dr = [pc |-> "idle", req |-> NoReq]
    /\ replies = <<>>
    /\ consumed = <<>>
    /\ delivered = <<>>

\* the zero OpenChannelError
NoRej == [Reason |-> 0, Message |-> ""]

NoCall == [pc |-> "idle", op |-> None, id |-> 0, want |-> FALSE, closedAtReturn |-> FALSE,
           ok |-> FALSE, tag |-> 0, err |-> ErrNil, rej |-> NoRej]

MuxIdle ==
    /\ mux = [down |-> FALSE, err |-> ErrNil, lock |-> None]
    /\ calls = [p \in Procs |-> NoCall]
    /\ toPeer = <<>>
    /\ fromPeer = <<>>

HistInit == hist = [closeCalled |-> FALSE, shutdownBy |-> None, nCalls |-> 0]

----------------------------------------------------------------------------
(* Metadata specification: callers of the accessors and of Close *)

Alive == ~ret.panic

Apply(o) ==
    /\ conn' = o.conn
    /\ heap' = o.heap
    /\ stream' = o.stream
    /\ ret' = o.ret
    /\ last' = o.ret.op

InitMeta ==
    /\ \E u \in Users, sid \in ByteSeqs, cv \in VersionSeqs, sv \in VersionSeqs,
          ra \in {"/ip4/10.0.0.1/tcp/22"}, rc \in {ErrStreamClosed} :
        /\ conn = [stream |-> StreamPtr, user |-> u,
                   sessionID |-> 1, clientVersion |-> 2, serverVersion |-> 3]
        /\ heap = <<sid, cv, sv>>
        /\ stream = [closed |-> FALSE, closeCalls |-> 0, broken |-> FALSE, reclose |-> rc,
                     remote |-> ra, local |-> CHOOSE a \in Maddrs : a # ra]
        /\ orig = [user |-> u, sessionID |-> sid, clientVersion |-> cv,
                   serverVersion |-> sv, remote |-> ra]
    /\ held = <<>>
    /\ ret = NoRet
    /\ last = "establish"
    /\ HistInit
    /\ DiscardIdle
    /\ MuxIdle

CallUser ==
    /\ Alive
    /\ Apply(User(conn, heap, stream))
    /\ UNCHANGED <<held, orig, hist>>
    /\ UNCHANGED discardVars
    /\ UNCHANGED muxVars

CallSessionID ==
    /\ Alive
    /\ Len(held) < MaxAllocs
    /\ LET o == SessionID(conn, heap, stream)
       IN  Apply(o) /\ held' = Append(held, o.ret.buf)
    /\ UNCHANGED <<orig, hist>>
    /\ UNCHANGED discardVars
    /\ UNCHANGED muxVars

CallClientVersion ==
    /\ Alive
    /\ Len(held) < MaxAllocs
    /\ LET o == ClientVersion(conn, heap, stream)
       IN  Apply(o) /\ held' = Append(held, o.ret.buf)
    /\ UNCHANGED <<orig, hist>>
    /\ UNCHANGED discardVars
    /\ UNCHANGED muxVars

CallServerVersion ==
    /\ Alive
    /\ Len(held) < MaxAllocs
    /\ LET o == ServerVersion(conn, heap, stream)
       IN  Apply(o) /\ held' = Append(held, o.ret.buf)
    /\ UNCHANGED <<orig, hist>>
    /\ UNCHANGED discardVars
    /\ UNCHANGED muxVars

\* a caller writes into a buffer it was handed
MutateReturned ==
    /\ Alive
    /\ \E k \in 1..Len(held) : \E i \in 1..Len(heap[held[k]]) : \E b \in ByteVals :
        /\ heap[held[k]][i] # b
        /\ heap' = [heap EXCEPT ![held[k]][i] = b]
    /\ last' = "mutate"
    /\ UNCHANGED <<conn, held, stream, ret, orig, hist>>
    /\ UNCHANGED discardVars
    /\ UNCHANGED muxVars

CallRemoteMultiaddr ==
    /\ Alive
    /\ Apply(RemoteMultiaddr(conn, heap, stream))
    /\ UNCHANGED <<held, orig, hist>>
    /\ UNCHANGED discardVars
    /\ UNCHANGED muxVars

CallLocalMultiaddr ==
    /\ Alive
    /\ Apply(LocalMultiaddr(conn, heap, stream))
    /\ UNCHANGED <<held, orig, hist>>
    /\ UNCHANGED discardVars
    /\ UNCHANGED muxVars

CallClose ==
    /\ Alive
    /\ stream.closeCalls < MaxCloses
    /\ Apply(connection_Close(conn, heap, stream))
    /\ hist' = [hist EXCEPT !.closeCalled = TRUE,
                            !.shutdownBy = IF @ = None THEN "local" ELSE @]
    /\ UNCHANGED <<held, orig>>
    /\ UNCHANGED discardVars
    /\ UNCHANGED muxVars

CallSshConnClose ==
    /\ Alive
    /\ stream.closeCalls < MaxCloses
    /\ Apply(sshConn_Close(conn, heap, stream))
    /\ hist' = [hist EXCEPT !.closeCalled = TRUE,
                            !.shutdownBy = IF @ = None THEN "local" ELSE @]
    /\ UNCHANGED <<held, orig>>
    /\ UNCHANGED discardVars
    /\ UNCHANGED muxVars

\* the stream's connection reports another address (late-bound addressing)
AddrChange ==
    /\ \E a \in Maddrs :
        /\ a # stream.remote
        /\ stream' = [stream EXCEPT !.remote = a, !.local = stream.remote]
    /\ last' = "addrchange"
    /\ UNCHANGED <<conn, heap, held, ret, orig, hist>>
    /\ UNCHANGED discardVars
    /\ UNCHANGED muxVars

\* the transport under the stream fails
StreamFail ==
    /\ ~stream.closed
    /\ ~stream.broken
    /\ stream' = [stream EXCEPT !.broken = TRUE]
    /\ last' = "streamfail"
    /\ hist' = [hist EXCEPT !.shutdownBy = IF @ = None THEN "transport" ELSE @]
    /\ UNCHANGED <<conn, heap, held, ret, orig>>
    /\ UNCHANGED discardVars
    /\ UNCHANGED muxVars

NextMeta ==
    \/ CallUser
    \/ CallSessionID
    \/ CallClientVersion
    \/ CallServerVersion
    \/ MutateReturned
    \/ CallClose
    \/ CallSshConnClose

SpecMeta == InitMeta /\ [][NextMeta]_vars


(* C1: after any sequence of accessor calls, caller writes into returned   *)
(* buffers and Close, SessionID, ClientVersion and ServerVersion return a  *)
(* buffer whose content is the value fixed at establishment and whose      *)
(* storage is neither the internal buffer nor any buffer returned earlier, *)
(* the internal buffers keep their content, and User returns the same      *)
(* string.                                                                 *)
C1_DefensiveCopies ==
    /\ heap[conn.sessionID] = orig.sessionID
    /\ heap[conn.clientVersion] = orig.clientVersion
    /\ heap[conn.serverVersion] = orig.serverVersion
    /\ \A i \in 1..Len(held) :
        /\ held[i] \notin {conn.sessionID, conn.clientVersion, conn.serverVersion}
        /\ \A j \in 1..Len(held) : i # j => held[i] # held[j]
    /\ last = "SessionID" => heap[ret.buf] = orig.sessionID
    /\ last = "ClientVersion" => heap[ret.buf] = orig.clientVersion
    /\ last = "ServerVersion" => heap[ret.buf] = orig.serverVersion
    /\ last = "User" => ret.str = orig.user

\* a second SessionID call after the first returned copy was overwritten and the
\* connection closed
C1_Witness ==
    /\ last = "SessionID"
    /\ Len(held) >= 2
    /\ stream.closed
    /\ \E k \in 1..(Len(held) - 1) :
        heap[held[k]] \notin {orig.sessionID, orig.clientVersion, orig.serverVersion}

----------------------------------------------------------------------------
(* DiscardRequests *)

\* (*Request).Reply(ok, payload): one reply for the request goes out
Request_Reply(req, ok, payload, log) ==
    Append(log, [id |-> req.id, ok |-> ok, payload |-> payload])

\* a loop body that replies whether or not a reply is wanted
DiscardRequests_body_always(req, log) == Request_Reply(req, FALSE, <<>>, log)

\* the body of the loop: if req.WantReply { req.Reply(false, nil) }
DiscardRequests_body(req, log) ==
    IF req.WantReply THEN Request_Reply(req, FALSE, <<>>, log) ELSE log

\* a loop that stops after its first request
DiscardRequests_range_once(ch) ==
    IF consumed # <<>> THEN [kind |-> "closed", req |-> NoReq]
    ELSE IF ch.buf # <<>> THEN [kind |-> "item", req |-> Head(ch.buf)]
    ELSE IF ch.closed THEN [kind |-> "closed", req |-> NoReq]
    ELSE [kind |-> "block", req |-> NoReq]

\* for req := range in: the next buffered request; the end of the loop once the
\* channel is closed and empty; otherwise the receive blocks
DiscardRequests_range(ch) ==
    IF ch.buf # <<>> THEN [kind |-> "item", req |-> Head(ch.buf)]
    ELSE IF ch.closed THEN [kind |-> "closed", req |-> NoReq]
    ELSE [kind |-> "block", req |-> NoReq]

InitDiscard ==
    /\ \E c \in 0..MaxCap : in = [cap |-> c, buf |-> <<>>, closed |-> FALSE]
    /\ dr = [pc |-> "recv", req |-> NoReq]
    /\ replies = <<>>
    /\ consumed = <<>>
    /\ delivered = <<>>
    /\ conn = [stream |-> StreamPtr, user |-> "alice",
               sessionID |-> 1, clientVersion |-> 2, serverVersion |-> 3]
    /\ heap = <<<<>>, <<>>, <<>>>>
    /\ held = <<>>
    /\ stream = [closed |-> FALSE, closeCalls |-> 0, broken |-> FALSE,
                 reclose |-> ErrStreamClosed,
                 remote |-> "/ip4/10.0.0.1/tcp/22", local |-> "/ip4/10.0.0.2/tcp/22"]
    /\ orig = [user |-> "alice", sessionID |-> <<>>, clientVersion |-> <<>>,
               serverVersion |-> <<>>, remote |-> "/ip4/10.0.0.1/tcp/22"]
    /\ ret = NoRet
    /\ last = "establish"
    /\ HistInit
    /\ MuxIdle

\* the producer sends a request into the channel's buffer
ProducerSend ==
    /\ ~in.closed
    /\ Len(delivered) < MaxReqs
    /\ Len(in.buf) < in.cap
    /\ \E w \in BOOLEAN :
        LET req == [id |-> Len(delivered) + 1, WantReply |-> w]
        IN  /\ in' = [in EXCEPT !.buf = Append(@, req)]
            /\ delivered' = Append(delivered, req)
    /\ UNCHANGED <<dr, replies, consumed>>
    /\ UNCHANGED metaVars
    /\ UNCHANGED muxVars

\* on an unbuffered channel the send and the waiting receive are one hand-off
ProducerHandOff ==
    /\ ~in.closed
    /\ Len(delivered) < MaxReqs
    /\ in.cap = 0
    /\ dr.pc = "recv"
    /\ \E w \in BOOLEAN :
        LET req == [id |-> Len(delivered) + 1, WantReply |-> w]
            got == DiscardRequests_range([in EXCEPT !.buf = <<req>>])
        IN  /\ delivered' = Append(delivered, req)
            /\ IF got.kind = "item"
               THEN /\ dr' = [pc |-> "body", req |-> got.req]
                    /\ consumed' = Append(consumed, got.req)
               ELSE /\ dr' = [pc |-> "done", req |-> NoReq]
                    /\ consumed' = consumed
    /\ UNCHANGED <<in, replies>>
    /\ UNCHANGED metaVars
    /\ UNCHANGED muxVars

\* the producer closes the channel
ProducerClose ==
    /\ ~in.closed
    /\ in' = [in EXCEPT !.closed = TRUE]
    /\ UNCHANGED <<dr, replies, consumed, delivered>>
    /\ UNCHANGED metaVars
    /\ UNCHANGED muxVars

\* the loop head receives a request, or leaves the loop
DiscardRecv ==
    /\ dr.pc = "recv"
    /\ LET got == DiscardRequests_range(in)
       IN  \/ /\ got.kind = "item"
              /\ in' = [in EXCEPT !.buf = Tail(@)]
              /\ dr' = [pc |-> "body", req |-> got.req]
              /\ consumed' = Append(consumed, got.req)
           \/ /\ got.kind = "closed"
              /\ dr' = [pc |-> "done", req |-> NoReq]
              /\ UNCHANGED <<in, consumed>>
    /\ UNCHANGED <<replies, delivered>>
    /\ UNCHANGED metaVars
    /\ UNCHANGED muxVars

\* the loop body runs for the request just received
DiscardBody ==
    /\ dr.pc = "body"
    /\ replies' = DiscardRequests_body(dr.req, replies)
    /\ dr' = [pc |-> "recv", req |-> NoReq]
    /\ UNCHANGED <<in, consumed, delivered>>
    /\ UNCHANGED metaVars
    /\ UNCHANGED muxVars

DiscardRequests == DiscardRecv \/ DiscardBody

NextDiscard ==
    \/ ProducerSend
    \/ ProducerHandOff
    \/ ProducerClose
    \/ DiscardRecv
    \/ DiscardBody

\* the goroutine running DiscardRequests is scheduled whenever it can run
SpecDiscard == InitDiscard /\ [][NextDiscard]_vars /\ WF_vars(DiscardRequests)

RECURSIVE Rejections(_)
\* one "not accepted, no payload" reply per request that wants one
Rejections(rs) ==
    IF rs = <<>> THEN <<>>
    ELSE LET rest == Rejections(Tail(rs))
         IN  IF Head(rs).WantReply
             THEN <<[id |-> Head(rs).id, ok |-> FALSE, payload |-> <<>>]>> \o rest
             ELSE rest

AllButLast(q) == SubSeq(q, 1, Len(q) - 1)

IsPrefix(p, q) == Len(p) <= Len(q) /\ SubSeq(q, 1, Len(p)) = p

(* C2: every consumed request with WantReply gets exactly one reply, with  *)
(* ok = false and no payload, sent before the next request is consumed;    *)
(* a request without WantReply gets none.                                  *)
C2_ReplyDiscipline ==
    /\ dr.pc \in {"recv", "done"} => replies = Rejections(consumed)
    /\ dr.pc = "body" => replies = Rejections(AllButLast(consumed))

\* both kinds of request were consumed and answered as due
C2_Witness ==
    /\ dr.pc = "recv"
    /\ \E i, j \in 1..Len(consumed) : consumed[i].WantReply /\ ~consumed[j].WantReply
    /\ replies # <<>>

(* C3: the loop does not return while the channel is open; it returns at   *)
(* the receive that finds the channel closed and drained, having consumed  *)
(* every request sent on it, in order; after returning it consumes nothing *)
(* more; and once the producer closes the channel the loop eventually      *)
(* returns.                                                                *)
C3_Termination ==
    /\ [](IsPrefix(consumed, delivered))
    /\ [](dr.pc = "done" => in.closed /\ in.buf = <<>> /\ consumed = delivered)
    /\ [][dr.pc = "done" => UNCHANGED <<dr, consumed, replies>>]_vars
    /\ [][dr.pc # "done" /\ dr'.pc = "done" => dr.pc = "recv" /\ in.closed /\ in.buf = <<>>]_vars
    /\ (in.closed ~> dr.pc = "done")

\* the loop returned after consuming every request of a buffered stream
C3_Witness ==
    /\ dr.pc = "done"
    /\ in.cap > 0
    /\ Len(consumed) = MaxReqs
    /\ in.closed


----------------------------------------------------------------------------
(* Stream specification: the address accessors and the two Close methods   *)
(* against a stream whose addresses and health change underneath them,     *)
(* beside a DiscardRequests loop draining a request stream                 *)

InitStream ==
    /\ \E u \in Users, sid \in ByteSeqs, ra \in Maddrs, rc \in {ErrNil, ErrStreamClosed} :
        /\ conn = [stream |-> StreamPtr, user |-> u,
                   sessionID |-> 1, clientVersion |-> 2, serverVersion |-> 3]
        /\ heap = <<sid, <<>>, <<>>>>
        /\ stream = [closed |-> FALSE, closeCalls |-> 0, broken |-> FALSE, reclose |-> rc,
                     remote |-> ra, local |-> CHOOSE a \in Maddrs : a # ra]
        /\ orig = [user |-> u, sessionID |-> sid, clientVersion |-> <<>>,
                   serverVersion |-> <<>>, remote |-> ra]
    /\ held = <<>>
    /\ ret = NoRet
    /\ last = "establish"
    /\ HistInit
    /\ in = [cap |-> 1, buf |-> <<[id |-> 1, WantReply |-> TRUE]>>, closed |-> TRUE]
    /\ dr = [pc |-> "recv", req |-> NoReq]
    /\ replies = <<>>
    /\ consumed = <<>>
    /\ delivered = <<[id |-> 1, WantReply |-> TRUE]>>
    /\ MuxIdle

NextStream ==
    \/ CallUser
    \/ CallSessionID
    \/ CallRemoteMultiaddr
    \/ CallLocalMultiaddr
    \/ CallClose
    \/ CallSshConnClose
    \/ AddrChange
    \/ StreamFail
    \/ DiscardRecv
    \/ DiscardBody

SpecStream == InitStream /\ [][NextStream]_vars


CloseOps == {"connection.Close", "sshConn.Close"}

\* this step is a call of one of the named methods (not a step of DiscardRequests)
CallOf(names) == dr' = dr /\ last' \in names

SameEffect(a, b) ==
    /\ a.conn = b.conn
    /\ a.heap = b.heap
    /\ a.stream = b.stream
    /\ a.ret.err = b.ret.err
    /\ a.ret.panic = b.ret.panic

(* C9: every RemoteMultiaddr / LocalMultiaddr call returns the address the *)
(* stream's connection reports at the moment of the call (no caching), and *)
(* the call changes nothing of the connection, its buffers or the stream.  *)
C9_AddressesNotCached ==
    [][/\ CallOf({"RemoteMultiaddr"}) =>
            /\ ret'.ma = stream.remote
            /\ ~ret'.panic
            /\ UNCHANGED <<conn, heap, held, stream>>
       /\ CallOf({"LocalMultiaddr"}) =>
            /\ ret'.ma = stream.local
            /\ ~ret'.panic
            /\ UNCHANGED <<conn, heap, held, stream>>]_vars

\* the address changed after establishment and the accessor reports the new one
C9_Witness ==
    /\ last = "RemoteMultiaddr"
    /\ ret.ma # orig.remote
    /\ ret.ma = stream.remote

(* C10: from every state connection.Close and sshConn.Close have the same  *)
(* effect and result; a Close is exactly one Close of the stream, returns  *)
(* the stream's result and leaves the metadata alone; no other operation   *)
(* closes the stream.                                                      *)
C10_SingleClosePath ==
    /\ [](SameEffect(connection_Close(conn, heap, stream), sshConn_Close(conn, heap, stream)))
    /\ [][IF CallOf(CloseOps)
          THEN /\ stream'.closeCalls = stream.closeCalls + 1
               /\ stream'.closed
               /\ ret'.err = stream_Close(stream).err
               /\ UNCHANGED <<conn, heap, held>>
          ELSE /\ stream'.closed = stream.closed
               /\ stream'.closeCalls = stream.closeCalls]_vars

\* the DiscardRequests loop ran to its end beside an open stream
C10_WitnessDiscard ==
    /\ dr.pc = "done"
    /\ replies # <<>>
    /\ ~stream.closed

\* the outer Close handed back the error of a failed stream
C10_Witness ==
    /\ last = "connection.Close"
    /\ ret.err = ErrIO
    /\ stream.closed

(* C5: a Close on a connection whose stream is already closed returns      *)
(* without panicking, with nil or a "closed" error, and changes nothing of *)
(* the stream or the connection; no Close panics.                          *)
C5_CloseIdempotent ==
    [][CallOf(CloseOps) =>
        /\ ~ret'.panic
        /\ stream.closed =>
            /\ ret'.err \in {ErrNil, ErrStreamClosed}
            /\ [stream' EXCEPT !.closeCalls = 0] = [stream EXCEPT !.closeCalls = 0]
            /\ UNCHANGED <<conn, heap, held>>]_vars

\* the outer Close has returned from a second call
C5_Witness ==
    /\ last = "connection.Close"
    /\ stream.closeCalls >= 2
    /\ ~ret.panic


----------------------------------------------------------------------------
(* OpenChannelError *)

Reasons == {1, 2, 3, 4}
Messages == {"no", ""}

\* RejectionReason.String()
RejectionReason_String(r) ==
    CASE r = 1 -> "administratively prohibited"
      [] r = 2 -> "connect failed"
      [] r = 3 -> "unknown channel type"
      [] r = 4 -> "resource shortage"

RECURSIVE Sprintf(_, _)
\* fmt.Sprintf over a format cut into literal pieces and %s verbs: each verb takes
\* the next argument
Sprintf(format, args) ==
    IF format = <<>> THEN ""
    ELSE IF Head(format) = "%s"
         THEN IF args = <<>> THEN "%!s(MISSING)" \o Sprintf(Tail(format), args)
              ELSE Head(args) \o Sprintf(Tail(format), Tail(args))
         ELSE Head(format) \o Sprintf(Tail(format), args)

\* an Error that leaves the message out
OpenChannelError_Error_nomsg(e) ==
    Sprintf(<<"ssh: rejected: ", "%s">>, <<RejectionReason_String(e.Reason)>>)

\* fmt.Sprintf("ssh: rejected: %s (%s)", e.Reason, e.Message)
OpenChannelError_Error(e) ==
    Sprintf(<<"ssh: rejected: ", "%s", " (", "%s", ")">>,
            <<RejectionReason_String(e.Reason), e.Message>>)

----------------------------------------------------------------------------
(* The Conn operations of connection: SendRequest, OpenChannel and Wait    *)
(* come from the embedded mux, Close is connection.Close                   *)

StreamDead(s) == s.closed \/ s.broken

Return(c, ok, tag, err) ==
    [c EXCEPT !.pc = "returned", !.ok = ok, !.tag = tag, !.err = err,
              !.closedAtReturn = hist.closeCalled]

\* OpenChannel returns the peer's rejection as *OpenChannelError; err is its Error()
Rejected(c, e) ==
    [Return(c, FALSE, 0, OpenChannelError_Error(e)) EXCEPT !.rej = e]

Begin(name, w) ==
    [NoCall EXCEPT !.pc = "begun", !.op = name, !.id = hist.nCalls + 1, !.want = w]

CanBegin(p) ==
    /\ calls[p].pc \in {"idle", "returned"}
    /\ hist.nCalls < MaxCalls

\* a SendRequest that does not take the global-request lock
mux_SendRequest_nolock(p) ==
    /\ calls[p].pc = "begun"
    /\ calls[p].op = "SendRequest"
    /\ IF StreamDead(stream) \/ mux.down
       THEN /\ calls' = [calls EXCEPT ![p] = Return(@, FALSE, 0, ErrEOF)]
            /\ UNCHANGED <<mux, toPeer>>
       ELSE /\ toPeer' = Append(toPeer, [kind |-> "global", id |-> calls[p].id,
                                         want |-> calls[p].want])
            /\ IF calls[p].want
               THEN calls' = [calls EXCEPT ![p].pc = "waitReply"]
               ELSE calls' = [calls EXCEPT ![p] = Return(@, FALSE, 0, ErrNil)]
            /\ UNCHANGED mux
    /\ UNCHANGED fromPeer

\* mux.SendRequest: under the global-request lock, write the request; without
\* wantReply return at once, otherwise keep the lock and wait for the reply
mux_SendRequest(p) ==
    /\ calls[p].pc = "begun"
    /\ calls[p].op = "SendRequest"
    /\ mux.lock = None
    /\ IF StreamDead(stream) \/ mux.down
       THEN /\ calls' = [calls EXCEPT ![p] = Return(@, FALSE, 0, ErrEOF)]
            /\ UNCHANGED <<mux, toPeer>>
       ELSE /\ toPeer' = Append(toPeer, [kind |-> "global", id |-> calls[p].id,
                                         want |-> calls[p].want])
            /\ IF calls[p].want
               THEN /\ calls' = [calls EXCEPT ![p].pc = "waitReply"]
                    /\ mux' = [mux EXCEPT !.lock = p]
               ELSE /\ calls' = [calls EXCEPT ![p] = Return(@, FALSE, 0, ErrNil)]
                    /\ UNCHANGED mux
    /\ UNCHANGED fromPeer

\* mux.OpenChannel: write the open request and wait for the peer's answer
mux_OpenChannel(p) ==
    /\ calls[p].pc = "begun"
    /\ calls[p].op = "OpenChannel"
    /\ IF StreamDead(stream) \/ mux.down
       THEN /\ calls' = [calls EXCEPT ![p] = Return(@, FALSE, 0, ErrEOF)]
            /\ UNCHANGED toPeer
       ELSE /\ toPeer' = Append(toPeer, [kind |-> "open", id |-> calls[p].id, want |-> TRUE])
            /\ calls' = [calls EXCEPT ![p].pc = "waitOpen"]
    /\ UNCHANGED <<mux, fromPeer>>

\* mux.Wait: block until the mux has shut down, return its terminal error
mux_Wait(p) ==
    /\ calls[p].pc = "begun"
    /\ calls[p].op = "Wait"
    /\ mux.down
    /\ calls' = [calls EXCEPT ![p] = Return(@, FALSE, 0, mux.err)]
    /\ UNCHANGED <<mux, toPeer, fromPeer>>

InitMux ==
    /\ conn = [stream |-> StreamPtr, user |-> "alice",
               sessionID |-> 1, clientVersion |-> 2, serverVersion |-> 3]
    /\ heap = <<<<>>, <<>>, <<>>>>
    /\ held = <<>>
    /\ stream = [closed |-> FALSE, closeCalls |-> 0, broken |-> FALSE,
                 reclose |-> ErrStreamClosed,
                 remote |-> "/ip4/10.0.0.1/tcp/22", local |-> "/ip4/10.0.0.2/tcp/22"]
    /\ orig = [user |-> "alice", sessionID |-> <<>>, clientVersion |-> <<>>,
               serverVersion |-> <<>>, remote |-> "/ip4/10.0.0.1/tcp/22"]
    /\ ret = NoRet
    /\ last = "establish"
    /\ HistInit
    /\ MuxIdle
    /\ in = [cap |-> 1, buf |-> <<>>, closed |-> FALSE]
    /\ dr = [pc |-> "recv", req |-> NoReq]
    /\ replies = <<>>
    /\ consumed = <<>>
    /\ delivered = <<>>

MuxFrame ==
    /\ UNCHANGED <<conn, heap, held, stream, ret, last, orig>>
    /\ UNCHANGED discardVars

\* a caller begins SendRequest, OpenChannel or Wait
BeginCall(p) ==
    /\ CanBegin(p)
    /\ \E c \in {Begin("SendRequest", TRUE), Begin("SendRequest", FALSE),
                 Begin("OpenChannel", TRUE), Begin("Wait", FALSE)} :
        calls' = [calls EXCEPT ![p] = c]
    /\ hist' = [hist EXCEPT !.nCalls = @ + 1]
    /\ UNCHANGED <<mux, toPeer, fromPeer>>
    /\ MuxFrame

\* a caller that is in no other call calls Close
Close(p) ==
    /\ CanBegin(p)
    /\ Alive
    /\ stream.closeCalls < MaxCloses
    /\ Apply(connection_Close(conn, heap, stream))
    /\ hist' = [hist EXCEPT !.closeCalled = TRUE,
                            !.shutdownBy = IF @ = None THEN "local" ELSE @,
                            !.nCalls = @ + 1]
    /\ UNCHANGED <<held, orig>>
    /\ UNCHANGED discardVars
    /\ UNCHANGED muxVars

SendRequest(p) == mux_SendRequest(p) /\ UNCHANGED hist /\ MuxFrame

OpenChannel(p) == mux_OpenChannel(p) /\ UNCHANGED hist /\ MuxFrame

Wait(p) == mux_Wait(p) /\ UNCHANGED hist /\ MuxFrame

\* the peer takes a global request that wants no reply
PeerTake ==
    /\ toPeer # <<>>
    /\ ~StreamDead(stream)
    /\ Head(toPeer).kind = "global"
    /\ ~Head(toPeer).want
    /\ toPeer' = Tail(toPeer)
    /\ UNCHANGED <<mux, calls, fromPeer, hist>>
    /\ MuxFrame

\* the peer answers a global request, accepting it or not
PeerReply ==
    /\ toPeer # <<>>
    /\ ~StreamDead(stream)
    /\ Head(toPeer).kind = "global"
    /\ Head(toPeer).want
    /\ toPeer' = Tail(toPeer)
    /\ \E ok \in BOOLEAN :
        fromPeer' = Append(fromPeer, [kind |-> "reply", tag |-> Head(toPeer).id, ok |-> ok,
                                      reason |-> 0, message |-> ""])
    /\ UNCHANGED <<mux, calls, hist>>
    /\ MuxFrame

\* the peer accepts a channel open
PeerConfirm ==
    /\ toPeer # <<>>
    /\ ~StreamDead(stream)
    /\ Head(toPeer).kind = "open"
    /\ toPeer' = Tail(toPeer)
    /\ fromPeer' = Append(fromPeer, [kind |-> "confirm", tag |-> Head(toPeer).id, ok |-> TRUE,
                                     reason |-> 0, message |-> ""])
    /\ UNCHANGED <<mux, calls, hist>>
    /\ MuxFrame

\* the peer rejects a channel open with one of the given reasons and messages
PeerRejectWith(rs, msgs) ==
    /\ toPeer # <<>>
    /\ ~StreamDead(stream)
    /\ Head(toPeer).kind = "open"
    /\ toPeer' = Tail(toPeer)
    /\ \E r \in rs, msg \in msgs :
        fromPeer' = Append(fromPeer, [kind |-> "failure", tag |-> Head(toPeer).id, ok |-> FALSE,
                                      reason |-> r, message |-> msg])
    /\ UNCHANGED <<mux, calls, hist>>
    /\ MuxFrame

\* a peer configured to reject with "administratively prohibited" and "no"
PeerProhibit == PeerRejectWith({1}, {"no"})

\* a peer that rejects with any reason and message
PeerReject == PeerRejectWith(Reasons, Messages)

\* the mux loop reads the next packet and hands it to the call it answers
MuxLoopRead ==
    /\ ~mux.down
    /\ ~StreamDead(stream)
    /\ fromPeer # <<>>
    /\ LET pkt == Head(fromPeer)
       IN  /\ fromPeer' = Tail(fromPeer)
           /\ IF pkt.kind = "reply"
              THEN \E p \in Procs :
                    /\ calls[p].pc = "waitReply"
                    /\ calls' = [calls EXCEPT ![p] = Return(@, pkt.ok, pkt.tag, ErrNil)]
                    /\ mux' = [mux EXCEPT !.lock = IF @ = p THEN None ELSE @]
              ELSE \E p \in Procs :
                    /\ calls[p].pc = "waitOpen"
                    /\ calls[p].id = pkt.tag
                    /\ calls' = [calls EXCEPT ![p] =
                          IF pkt.kind = "confirm" THEN Return(@, TRUE, pkt.tag, ErrNil)
                          ELSE Rejected(@, [Reason |-> pkt.reason, Message |-> pkt.message])]
                    /\ UNCHANGED mux
    /\ UNCHANGED <<toPeer, hist>>
    /\ MuxFrame

\* the mux loop finds the stream dead: it records why and closes what it feeds
MuxShutdown ==
    /\ ~mux.down
    /\ StreamDead(stream)
    /\ mux' = [mux EXCEPT !.down = TRUE, !.err = IF stream.broken THEN ErrIO ELSE ErrNil]
    /\ in' = [in EXCEPT !.closed = TRUE]
    /\ UNCHANGED <<calls, toPeer, fromPeer, hist>>
    /\ UNCHANGED <<conn, heap, held, stream, ret, last, orig>>
    /\ UNCHANGED <<dr, replies, consumed, delivered>>

\* a call waiting for the peer finds the mux shut down
Unblock(p) ==
    /\ mux.down
    /\ calls[p].pc \in {"waitReply", "waitOpen"}
    /\ calls' = [calls EXCEPT ![p] = Return(@, FALSE, 0, ErrEOF)]
    /\ mux' = [mux EXCEPT !.lock = IF @ = p THEN None ELSE @]
    /\ UNCHANGED <<toPeer, fromPeer, hist>>
    /\ MuxFrame

NextMux ==
    \/ \E p \in Procs : BeginCall(p)
    \/ \E p \in Procs : SendRequest(p)
    \/ \E p \in Procs : OpenChannel(p)
    \/ \E p \in Procs : Wait(p)
    \/ \E p \in Procs : Unblock(p)
    \/ \E p \in Procs : Close(p)
    \/ StreamFail
    \/ PeerTake
    \/ PeerReply
    \/ PeerConfirm
    \/ PeerProhibit
    \/ MuxLoopRead
    \/ MuxShutdown
    \/ DiscardRecv

\* what the goroutine of caller p does next inside its call
Caller(p) == SendRequest(p) \/ OpenChannel(p) \/ Wait(p) \/ Unblock(p)

\* every goroutine of this side that can run is scheduled; the peer owes nothing
SpecMux ==
    /\ InitMux
    /\ [][NextMux]_vars
    /\ WF_vars(MuxShutdown)
    /\ WF_vars(DiscardRecv)
    /\ \A p \in Procs : WF_vars(Caller(p))

IsReturned(p, name) == calls[p].pc = "returned" /\ calls[p].op = name

Suspended(p) ==
    /\ calls[p].op \in {"SendRequest", "OpenChannel"}
    /\ calls[p].pc \in {"begun", "waitReply", "waitOpen"}

(* C4: a SendRequest or OpenChannel that returns after Close was called    *)
(* returns an error; every SendRequest or OpenChannel in progress once     *)
(* Close has been called eventually returns; and a DiscardRequests loop    *)
(* reading a request stream of the connection eventually returns.          *)
C4_CloseEndsEverything ==
    /\ [](\A p \in Procs :
            (IsReturned(p, "SendRequest") \/ IsReturned(p, "OpenChannel"))
            /\ calls[p].closedAtReturn => calls[p].err # ErrNil)
    /\ \A p \in Procs : (hist.closeCalled /\ Suspended(p)) ~> calls[p].pc = "returned"
    /\ (hist.closeCalled /\ dr.pc = "recv") ~> dr.pc = "done"

\* a SendRequest whose reply was already on its way when Close was called has
\* returned an error, and the DiscardRequests loop has returned
C4_Witness ==
    /\ hist.closeCalled
    /\ dr.pc = "done"
    /\ \E p \in Procs :
        /\ IsReturned(p, "SendRequest")
        /\ calls[p].want
        /\ calls[p].err = ErrEOF
        /\ \E i \in 1..Len(fromPeer) : fromPeer[i].tag = calls[p].id

(* C6: the mux shuts down once and keeps its terminal error; Wait returns  *)
(* only after the shutdown, with that error: nil when a local Close ended  *)
(* a healthy stream, the transport failure when that came first.           *)
C6_WaitReturnsCause ==
    /\ [](\A p \in Procs : IsReturned(p, "Wait") =>
            /\ mux.down
            /\ calls[p].err = mux.err
            /\ calls[p].err = IF hist.shutdownBy = "local" THEN ErrNil ELSE ErrIO)
    /\ [][mux.down => mux'.down /\ mux'.err = mux.err]_vars

\* Wait returned nil after a local Close of a healthy stream
C6_Witness ==
    \E p \in Procs :
        /\ IsReturned(p, "Wait")
        /\ calls[p].err = ErrNil
        /\ hist.shutdownBy = "local"
        /\ stream.closed

\* Wait returned the transport failure
C6_WitnessFailure ==
    \E p \in Procs : IsReturned(p, "Wait") /\ calls[p].err = ErrIO

(* C8: a SendRequest with wantReply returns the reply to its own request,  *)
(* never the reply to another one, and at most one global request awaits   *)
(* its reply at any time, so replies come back in the order of the sends.  *)
C8_RepliesInOrder ==
    /\ \A p \in Procs :
        IsReturned(p, "SendRequest") /\ calls[p].want /\ calls[p].err = ErrNil
            => calls[p].tag = calls[p].id
    /\ Cardinality({p \in Procs : calls[p].pc = "waitReply"}) <= 1

\* two requests were both answered, each with its own reply
C8_Witness ==
    \E p, q \in Procs :
        /\ p # q
        /\ IsReturned(p, "SendRequest") /\ calls[p].want /\ calls[p].err = ErrNil
        /\ IsReturned(q, "SendRequest") /\ calls[q].want /\ calls[q].err = ErrNil
        /\ calls[p].tag = calls[p].id
        /\ calls[q].tag = calls[q].id

----------------------------------------------------------------------------
(* Rejection specification: OpenChannel against a peer that accepts or     *)
(* rejects with any reason and message                                     *)

BeginOpenChannel(p) ==
    /\ CanBegin(p)
    /\ calls' = [calls EXCEPT ![p] = Begin("OpenChannel", TRUE)]
    /\ hist' = [hist EXCEPT !.nCalls = @ + 1]
    /\ UNCHANGED <<mux, toPeer, fromPeer>>
    /\ MuxFrame

NextReject ==
    \/ \E p \in Procs : BeginOpenChannel(p)
    \/ \E p \in Procs : OpenChannel(p)
    \/ PeerConfirm
    \/ PeerReject
    \/ MuxLoopRead

SpecReject == InitMux /\ [][NextReject]_vars

IsRejected(p) == IsReturned(p, "OpenChannel") /\ calls[p].rej # NoRej

(* C7 as stated: the rendering of a rejection is exactly                   *)
(* "rejected: <reason> (<message>)".                                       *)
C7_AsStated ==
    \A p \in Procs : IsRejected(p) =>
        calls[p].err = "rejected: " \o RejectionReason_String(calls[p].rej.Reason)
                           \o " (" \o calls[p].rej.Message \o ")"

(* C7: the rendering of a rejection is exactly                             *)
(* "ssh: rejected: <reason> (<message>)"; for "administratively            *)
(* prohibited" and "no" it is "ssh: rejected: administratively prohibited  *)
(* (no)".                                                                  *)
C7_Rendering ==
    \A p \in Procs : IsRejected(p) =>
        /\ calls[p].err = "ssh: rejected: " \o RejectionReason_String(calls[p].rej.Reason)
                              \o " (" \o calls[p].rej.Message \o ")"
        /\ calls[p].rej = [Reason |-> 1, Message |-> "no"] =>
              calls[p].err = "ssh: rejected: administratively prohibited (no)"

\* OpenChannel came back rejected with "administratively prohibited" and "no"
C7_Witness ==
    \E p \in Procs :
        /\ IsRejected(p)
        /\ calls[p].rej = [Reason |-> 1, Message |-> "no"]
        /\ calls[p].err = "ssh: rejected: administratively prohibited (no)"

====
